---- MODULE Spec2Model ----
(***************************************************************************)
(* A model of function<R(Args...)> of function.h: a type-erased callable   *)
(* wrapper made of one word of storage and a pointer to a per-type table   *)
(* of five operations (copy, move, destroy, get, invoke).                  *)
(*                                                                         *)
(* State: a fixed set of wrapper slots (objects of type function), the     *)
(* heap the boxed payloads live on, the balance of allocations over        *)
(* deallocations, the memory errors seen so far, and the name of the last  *)
(* operation that ran. operator(), target() and operator bool are const    *)
(* and are operators over the state (FnInvoke, FnTarget, FnBool).          *)
(***************************************************************************)
EXTENDS Integers, FiniteSets, Sequences, TLC

(* ---------------- bounds of the model ---------------- *)
NW == 2            \* wrapper slots 1..NW
MaxArg == 1        \* call arguments 0..MaxArg

\* heap addresses 1..MaxAddr: every wrapper and the temporary of an
\* assignment can hold an allocation at the same time
MaxAddr == NW + 1

(* ---------------- program constants ---------------- *)
WordSize == 8      \* sizeof(void*)
WordAlign == 8     \* alignof(void*)

Slots == 1..NW
TmpW == 0          \* the temporary wrapper of the assignment operators
Scratch == -1      \* storage_t tmp of swap
Addrs == 1..MaxAddr
\* the data member of a callable is a flag the call operator reads
Vals == {0, 1}
Args == 0..MaxArg

(* The callable types bound in this model, by the properties fits_small    *)
(* reads, plus whether the destructor is trivial.                          *)
Types == {"S1", "S4", "B8"}
\* and the types one step off each condition of fits_small: one word in size
\* with a smaller alignment (B8a4), a move constructor that may throw (N4c),
\* a move assignment that may throw (N4a)
AllTypes == Types \cup {"B8a4", "N4c", "N4a"}

TypeInfo(T) ==
  CASE T = "S1" -> [size |-> 1, align |-> 1, nma |-> TRUE, nmc |-> TRUE, tdtor |-> TRUE]
    [] T = "S4" -> [size |-> 4, align |-> 4, nma |-> TRUE, nmc |-> TRUE, tdtor |-> FALSE]
    [] T = "B8" -> [size |-> 8, align |-> 8, nma |-> TRUE, nmc |-> TRUE, tdtor |-> TRUE]
    [] T = "B8a4" -> [size |-> 8, align |-> 4, nma |-> TRUE, nmc |-> TRUE, tdtor |-> TRUE]
    [] T = "N4c" -> [size |-> 4, align |-> 4, nma |-> TRUE, nmc |-> FALSE, tdtor |-> TRUE]
    [] T = "N4a" -> [size |-> 4, align |-> 4, nma |-> FALSE, nmc |-> TRUE, tdtor |-> TRUE]

\* the states a callable of type T can be in (only S4 and B8 have a data
\* member)
TypeVals(T) == IF T \in {"S4", "B8"} THEN Vals ELSE {0}

\* a fits_small with <= for <
fits_small_NonStrict(T) ==
  /\ TypeInfo(T).size <= WordSize
  /\ TypeInfo(T).align <= WordAlign
  /\ TypeInfo(T).nma
  /\ TypeInfo(T).nmc

\* constexpr bool fits_small<T>()
fits_small(T) ==
  /\ TypeInfo(T).size < WordSize
  /\ TypeInfo(T).align < WordAlign
  /\ TypeInfo(T).nma
  /\ TypeInfo(T).nmc

Empty == "empty"   \* get_empty_func_descriptor()
Descs == Types \cup {Empty}

(* ---------------- storage cells ---------------- *)
(* What a cell holds: nothing was ever written to it ("uninit"), a T in     *)
(* place ("obj"), a pointer to a boxed T ("ptr"), or what is left after    *)
(* the payload was moved out of it or destroyed ("stale": the bytes are    *)
(* still there, but they are no payload and nothing may depend on them).   *)
Uninit == [k |-> "uninit", t |-> Empty, v |-> 0, a |-> 0]
Stale == [k |-> "stale", t |-> Empty, v |-> 0, a |-> 0]
ObjCell(T, v) == [k |-> "obj", t |-> T, v |-> v, a |-> 0]
PtrCell(a) == [k |-> "ptr", t |-> Empty, v |-> 0, a |-> a]
\* the cell holds a payload
Has(c) == c.k \in {"obj", "ptr"}

FreeObj == [st |-> "free", t |-> Empty, v |-> 0]
HeapObj(T, v) == [st |-> "live", t |-> T, v |-> v]

NoView == [d |-> "none", v |-> 0, a |-> 0]
NoRes == [k |-> "none", t |-> Empty, v |-> 0, w |-> 0]

VARIABLES alive, desc, storage, heap, balance, faults, crashed, last

vars == <<alive, desc, storage, heap, balance, faults, crashed, last>>

(* ---------------- the machine the operations run on ---------------- *)
(* Wrapper locations 0..NW (0 is the temporary of an assignment), cells    *)
(* -1..NW (-1 is swap's scratch cell). allocs and deallocs count what the   *)
(* operation did to the heap, dtors the payloads destroy released, ev      *)
(* collects what it did to payload objects, faults the memory errors.      *)
Locs == 0..NW
Cells == -1..NW

Machine ==
  [desc |-> [l \in Locs |-> IF l \in Slots THEN desc[l] ELSE Empty],
   st |-> [c \in Cells |-> IF c \in Slots THEN storage[c] ELSE Uninit],
   heap |-> heap, allocs |-> 0, deallocs |-> 0, dtors |-> 0, ev |-> {},
   faults |-> faults]

IsObj(c, T) == c.k = "obj" /\ c.t = T
IsLivePtr(m, c, T) == c.k = "ptr" /\ m.heap[c.a].st = "live" /\ m.heap[c.a].t = T

\* reinterpret_cast<T&>(*src): the value of the T in the cell
ReadObj(c, T) == IF IsObj(c, T) THEN c.v ELSE 0
\* *ptr_from_storage<T>(src): the value of the T the cell points to
ReadBoxed(m, c, T) == IF IsLivePtr(m, c, T) THEN m.heap[c.a].v ELSE 0

Fault(m, f) == [m EXCEPT !.faults = @ \cup {f}]
Event(m, e) == [m EXCEPT !.ev = @ \cup {e}]

\* new T(v) returning address a
New(m, T, v, a) ==
  [m EXCEPT !.heap[a] = HeapObj(T, v), !.allocs = @ + 1]

\* delete p
Delete(m, c, T) ==
  IF IsLivePtr(m, c, T)
  THEN [m EXCEPT !.heap[c.a] = FreeObj, !.deallocs = @ + 1, !.dtors = @ + 1]
  ELSE Fault(m, "bad_free")

(* ---------------- type_descriptor: the empty table ---------------- *)
EmptyCopy(m, s, t) == m
\* an empty table whose move copies the bytes of the cell
EmptyMove_CopiesBits(m, s, t) == [m EXCEPT !.st[t] = m.st[s]]

EmptyMove(m, s, t) == m
\* an empty table whose destroy deletes what the cell spells
EmptyDestroy_Deletes(m, s) == Delete(m, m.st[s], Empty)

EmptyDestroy(m, s) == m
EmptyGet(m, s) == [NoRes EXCEPT !.k = "null"]
\* a table whose invoke returns a value-initialised R instead of throwing
EmptyInvoke_Returns(m, s, arg) == [NoRes EXCEPT !.k = "ret"]

EmptyInvoke(m, s, arg) == [NoRes EXCEPT !.k = "bad_call"]

(* ---------------- type_descriptor: the table of type T ---------------- *)
\* a copy that duplicates the pointer instead of the object
TCopy_Shallow(m, T, s, t, a) ==
  IF fits_small(T)
  THEN Event([m EXCEPT !.st[t] = ObjCell(T, ReadObj(m.st[s], T))], "construct")
  ELSE [m EXCEPT !.st[t] = m.st[s]]

TCopy(m, T, s, t, a) ==
  IF fits_small(T)
  THEN LET m1 == IF IsObj(m.st[s], T) THEN m ELSE Fault(m, "bad_read")
       IN  Event([m1 EXCEPT !.st[t] = ObjCell(T, ReadObj(m.st[s], T))], "construct")
  ELSE LET m1 == IF IsLivePtr(m, m.st[s], T) THEN m ELSE Fault(m, "bad_read")
           m2 == New(m1, T, ReadBoxed(m, m.st[s], T), a)
       IN  [m2 EXCEPT !.st[t] = PtrCell(a)]

\* How copying a T can fail: T's copy constructor throws, and for a boxed T
\* operator new throws.
ThrowKinds(T) == IF fits_small(T) THEN {"ctor"} ELSE {"bad_alloc", "ctor"}

\* copy of the table of type T when it throws: an inline T is not
\* constructed in dst; for a boxed T either nothing was allocated, or the
\* new-expression frees the allocation whose constructor threw. dst is not
\* written.
TCopyThrows(m, T, s, t, a, how) ==
  LET m1 == Event(m, "throw")
  IN  IF fits_small(T) \/ how = "bad_alloc"
      THEN m1
      ELSE [m1 EXCEPT !.allocs = @ + 1, !.deallocs = @ + 1]

TMoveSmall(m, T, s, t) ==
  LET src == m.st[s]
      dst == m.st[t]
      \* the source is no T: it was moved from, or never written
      m1 == IF IsObj(src, T) THEN m
            ELSE IF src.k = "stale" THEN Event(m, "read_moved_from")
            ELSE Fault(m, "bad_read")
      \* the assignment is to a cell that holds no T
      m2 == IF IsObj(dst, T) THEN m1 ELSE Event(m1, "assign_nonlive")
      m3 == IF Has(dst) /\ s # t THEN Event(m2, "overwrite") ELSE m2
      \* reinterpret_cast<T&>(*dst) = std::move(reinterpret_cast<T&>(*src))
      m4 == [m3 EXCEPT !.st[t] = IF IsObj(src, T) THEN ObjCell(T, src.v) ELSE Stale]
      m5 == IF s = t THEN m4 ELSE [m4 EXCEPT !.st[s] = Stale]
      \* ptr_from_storage<T>(src)->~T(): the destructor runs on the address
      \* the bytes of the cell spell, not on the cell
      m6 == Event(m5, "wild_destroy")
  IN  IF TypeInfo(T).tdtor THEN m6 ELSE Event(m6, "wild_destroy_nontrivial")

\* a boxed move that duplicates the object and deletes the original
TMoveBoxed_Reallocates(m, T, s, t) ==
  LET a == CHOOSE b \in Addrs : m.heap[b].st = "free"
      m1 == New(m, T, ReadBoxed(m, m.st[s], T), a)
      m2 == Delete(m1, m.st[s], T)
  IN  [m2 EXCEPT !.st[s] = Stale, !.st[t] = PtrCell(a)]

TMoveBoxed(m, T, s, t) ==
  LET src == m.st[s]
      dst == m.st[t]
      m1 == IF Has(dst) /\ s # t THEN Event(m, "overwrite") ELSE m
      \* *dst = *src
      m2 == [m1 EXCEPT !.st[t] = src]
  IN  IF s = t THEN m2 ELSE [m2 EXCEPT !.st[s] = Stale]

TMove(m, T, s, t) ==
  IF fits_small(T) THEN TMoveSmall(m, T, s, t) ELSE TMoveBoxed(m, T, s, t)

\* a destroy that runs no delete on a boxed payload
TDestroy_Leak(m, T, s) == [m EXCEPT !.st[s] = Stale]

TDestroy(m, T, s) ==
  IF fits_small(T)
  THEN LET c == m.st[s]
           m1 == IF IsObj(c, T)
                 THEN [Event(m, "destroy") EXCEPT !.dtors = @ + 1]
                 ELSE Event(m, "destroy_nonlive")
       IN  [m1 EXCEPT !.st[s] = Stale]
  ELSE [Delete(m, m.st[s], T) EXCEPT !.st[s] = Stale]

TGet(m, T, s) ==
  IF fits_small(T)
  THEN [NoRes EXCEPT !.k = "ptr_cell", !.t = T, !.w = s]
  ELSE [NoRes EXCEPT !.k = "ptr_heap", !.t = T, !.w = m.st[s].a]

\* the call operator of a T in state v
Call(T, v, arg) == v + arg

TInvoke(m, T, s, arg) ==
  IF fits_small(T)
  THEN [NoRes EXCEPT !.k = "ret", !.t = T, !.v = Call(T, ReadObj(m.st[s], T), arg)]
  ELSE [NoRes EXCEPT !.k = "ret", !.t = T, !.v = Call(T, ReadBoxed(m, m.st[s], T), arg)]

(* ---------------- dispatch through a table pointer ---------------- *)
DescCopy(m, d, s, t, a) == IF d = Empty THEN EmptyCopy(m, s, t) ELSE TCopy(m, d, s, t, a)
DescMove(m, d, s, t) == IF d = Empty THEN EmptyMove(m, s, t) ELSE TMove(m, d, s, t)
DescDestroy(m, d, s) == IF d = Empty THEN EmptyDestroy(m, s) ELSE TDestroy(m, d, s)
DescGet(m, d, s) == IF d = Empty THEN EmptyGet(m, s) ELSE TGet(m, d, s)
DescInvoke(m, d, s, arg) == IF d = Empty THEN EmptyInvoke(m, s, arg) ELSE TInvoke(m, d, s, arg)

(* ---------------- function<R(Args...)> ---------------- *)
EmptyDesc == Empty

\* function() noexcept
FnDefault(m, i) == [m EXCEPT !.desc[i] = EmptyDesc]

\* a constructor that boxes every callable
FnFromCallable_AlwaysBox(m, i, T, v, a) ==
  [New([m EXCEPT !.desc[i] = T], T, v, a) EXCEPT !.st[i] = PtrCell(a)]

\* function(T val)
FnFromCallable(m, i, T, v, a) ==
  LET m1 == [m EXCEPT !.desc[i] = T]
  IN  IF fits_small(T)
      THEN Event([m1 EXCEPT !.st[i] = ObjCell(T, v)], "construct")
      ELSE [New(m1, T, v, a) EXCEPT !.st[i] = PtrCell(a)]

\* function(function const& other)
FnCopyCtor(m, i, j, a) ==
  LET m1 == [m EXCEPT !.desc[i] = m.desc[j]]
  IN  DescCopy(m1, m.desc[j], j, i, a)

\* function(function const& other) when other.desc->copy throws: desc is
\* set, the object never comes to life and no destructor runs for it
FnCopyCtorThrows(m, i, j, a, how) ==
  TCopyThrows([m EXCEPT !.desc[i] = m.desc[j]], m.desc[j], j, i, a, how)

\* function(T val) when new T(std::move(val)) throws
FnFromCallableThrows(m, i, T) == Event([m EXCEPT !.desc[i] = T], "throw")

\* a move constructor that leaves other.desc as it was
FnMoveCtor_NoReset(m, i, j) ==
  DescMove([m EXCEPT !.desc[i] = m.desc[j]], m.desc[j], j, i)

\* function(function&& other) noexcept
FnMoveCtor(m, i, j) ==
  LET m1 == [m EXCEPT !.desc[i] = m.desc[j]]
      m2 == DescMove(m1, m1.desc[i], j, i)
  IN  [m2 EXCEPT !.desc[j] = EmptyDesc]

\* ~function()
FnDtor(m, i) == DescDestroy(m, m.desc[i], i)

\* a third move that goes through this->desc
SwapStep3_LeftTable(m, i, j) == DescMove(m, m.desc[i], Scratch, i)

\* the three moves of swap, this = i, other = j; tmp starts uninitialised
SwapStep1(m, i, j) == DescMove([m EXCEPT !.st[Scratch] = Uninit], m.desc[j], j, Scratch)
SwapStep2(m, i, j) == DescMove(m, m.desc[i], i, j)
SwapStep3(m, i, j) == DescMove(m, m.desc[j], Scratch, i)
\* a swap that forgets swap(desc, other.desc)
SwapDescs_Forgotten(m, i, j) == m

SwapDescs(m, i, j) == [m EXCEPT !.desc[i] = m.desc[j], !.desc[j] = m.desc[i]]

\* a swap that does not save other's payload in tmp first
FnSwap_NoTmp(m, i, j) ==
  SwapDescs(SwapStep3(SwapStep2([m EXCEPT !.st[Scratch] = Uninit], i, j), i, j), i, j)

\* void swap(function& other)
FnSwap(m, i, j) ==
  SwapDescs(SwapStep3(SwapStep2(SwapStep1(m, i, j), i, j), i, j), i, j)

\* a copy assignment whose temporary is never destroyed
FnCopyAssign_TmpKept(m, i, j, a) ==
  IF i # j
  THEN FnSwap(FnCopyCtor([m EXCEPT !.st[TmpW] = Uninit], TmpW, j, a), TmpW, i)
  ELSE m

\* function& operator=(function const& rhs)
FnCopyAssign(m, i, j, a) ==
  IF i # j
  THEN FnDtor(FnSwap(FnCopyCtor([m EXCEPT !.st[TmpW] = Uninit], TmpW, j, a), TmpW, i), TmpW)
  ELSE m

\* a copy assignment that destroys its payload before it copies
FnCopyAssignThrows_DestroyFirst(m, i, j, a, how) ==
  FnCopyCtorThrows(FnDtor(m, i), i, j, a, how)

\* operator=(function const& rhs), this != &rhs, when function(rhs) throws:
\* the exception leaves operator= before swap is called
FnCopyAssignThrows(m, i, j, a, how) ==
  FnCopyCtorThrows([m EXCEPT !.st[TmpW] = Uninit], TmpW, j, a, how)

\* a move assignment without the this != &rhs test
FnMoveAssign_NoSelfCheck(m, i, j) ==
  LET m1 == FnSwap(m, i, j)
      m2 == FnDefault([m1 EXCEPT !.st[TmpW] = Uninit], TmpW)
  IN  FnDtor(FnSwap(m2, TmpW, j), TmpW)

\* a move assignment that is swap(rhs) alone
FnMoveAssign_SwapOnly(m, i, j) == IF i # j THEN FnSwap(m, i, j) ELSE m

\* function& operator=(function&& rhs) noexcept
FnMoveAssign(m, i, j) ==
  IF i # j
  THEN LET m1 == FnSwap(m, i, j)
           m2 == FnDefault([m1 EXCEPT !.st[TmpW] = Uninit], TmpW)
       IN  FnDtor(FnSwap(m2, TmpW, j), TmpW)
  ELSE m

\* a conversion that tells whether the cell was ever written
FnBool_CellWritten(m, i) == m.st[i].k # "uninit"

\* explicit operator bool() const noexcept
FnBool(m, i) == m.desc[i] # EmptyDesc

\* R operator()(Args... args) const
FnInvoke(m, i, arg) == DescInvoke(m, m.desc[i], i, arg)

\* a target without the comparison of table addresses
FnTarget_NoCheck(m, i, T) == DescGet(m, m.desc[i], i)

\* T* target() noexcept
FnTarget(m, i, T) ==
  IF m.desc[i] # T THEN [NoRes EXCEPT !.k = "null"] ELSE DescGet(m, m.desc[i], i)

(* ---------------- what a wrapper holds, as its client sees it ---------------- *)
View(m, i) ==
  LET d == m.desc[i]
      c == m.st[i]
  IN  IF d = Empty THEN [d |-> Empty, v |-> 0, a |-> 0]
      ELSE IF fits_small(d) THEN [d |-> d, v |-> ReadObj(c, d), a |-> 0]
      ELSE [d |-> d, v |-> ReadBoxed(m, c, d), a |-> c.a]

FreeAddrs(h) == {a \in Addrs : h[a].st = "free"}
\* the address operator new returns if the operation calls it: the lowest
\* free one (addresses are interchangeable)
NewAddr == {a \in FreeAddrs(heap) : \A b \in FreeAddrs(heap) : a <= b}

Boxed(d) == d # Empty /\ ~fits_small(d)

(* ---------------- the state machine ---------------- *)
Init ==
  /\ alive = [i \in Slots |-> FALSE]
  /\ desc = [i \in Slots |-> Empty]
  /\ storage = [i \in Slots |-> Uninit]
  /\ heap = [a \in Addrs |-> FreeObj]
  /\ balance = 0
  /\ faults = {}
  /\ crashed = FALSE
  /\ last = "init"

\* The operation op ran to its end on machine m: the wrappers in `up` are
\* alive afterwards. A wrapper that is not alive is no object: its slot is
\* kept in one canonical state.
Commit(m, up, op) ==
  /\ alive' = up
  /\ desc' = [i \in Slots |-> IF up[i] THEN m.desc[i] ELSE Empty]
  /\ storage' = [i \in Slots |-> IF up[i] THEN m.st[i] ELSE Uninit]
  /\ heap' = m.heap
  /\ balance' = balance + m.allocs - m.deallocs
  /\ faults' = m.faults
  /\ crashed' = FALSE
  /\ last' = op

\* A destructor of a type with a non-trivial destructor ran on an address
\* that holds no such object: the process may die there, and with it every
\* wrapper and the heap.
Crash(m) ==
  /\ "wild_destroy_nontrivial" \in m.ev
  /\ crashed' = TRUE
  /\ alive' = [i \in Slots |-> FALSE]
  /\ desc' = [i \in Slots |-> Empty]
  /\ storage' = [i \in Slots |-> Uninit]
  /\ heap' = [a \in Addrs |-> FreeObj]
  /\ balance' = 0
  /\ last' = "crash"
  /\ UNCHANGED faults

Finish(m, up, op) == Commit(m, up, op) \/ Crash(m)

DefaultConstruct(i) ==
  /\ ~crashed /\ ~alive[i]
  /\ Finish(FnDefault(Machine, i), [alive EXCEPT ![i] = TRUE], "default")

Construct(i, T, v) ==
  /\ ~crashed /\ ~alive[i]
  /\ \/ \E a \in NewAddr :
          Finish(FnFromCallable(Machine, i, T, v, a), [alive EXCEPT ![i] = TRUE],
                 "construct")
     \/ /\ ~fits_small(T)
        /\ Commit(FnFromCallableThrows(Machine, i, T), alive, "construct_throw")

CopyConstruct(i, j) ==
  /\ ~crashed /\ ~alive[i] /\ alive[j]
  /\ \/ \E a \in NewAddr :
          Finish(FnCopyCtor(Machine, i, j, a), [alive EXCEPT ![i] = TRUE], "copy_ctor")
     \/ /\ desc[j] # Empty
        /\ \E a \in NewAddr, how \in ThrowKinds(desc[j]) :
             Commit(FnCopyCtorThrows(Machine, i, j, a, how), alive, "copy_ctor_throw")

MoveConstruct(i, j) ==
  /\ ~crashed /\ ~alive[i] /\ alive[j]
  /\ Finish(FnMoveCtor(Machine, i, j), [alive EXCEPT ![i] = TRUE], "move_ctor")

CopyAssign(i, j) ==
  /\ ~crashed /\ alive[i] /\ alive[j]
  /\ \/ \E a \in NewAddr :
          Finish(FnCopyAssign(Machine, i, j, a), alive,
                 IF i = j THEN "copy_assign_self" ELSE "copy_assign")
     \/ /\ i # j /\ desc[j] # Empty
        /\ \E a \in NewAddr, how \in ThrowKinds(desc[j]) :
             Commit(FnCopyAssignThrows(Machine, i, j, a, how), alive, "copy_assign_throw")

MoveAssign(i, j) ==
  /\ ~crashed /\ alive[i] /\ alive[j]
  /\ Finish(FnMoveAssign(Machine, i, j), alive,
            IF i = j THEN "move_assign_self" ELSE "move_assign")

Swap(i, j) ==
  /\ ~crashed /\ alive[i] /\ alive[j]
  /\ Finish(FnSwap(Machine, i, j), alive, IF i = j THEN "swap_self" ELSE "swap")

Destroy(i) ==
  /\ ~crashed /\ alive[i]
  /\ Finish(FnDtor(Machine, i), [alive EXCEPT ![i] = FALSE], "destroy")

\* *w.target<T>() = T in state v: the client changes the state of the held
\* callable through the pointer target returns
Store(m, p, v) ==
  CASE p.k = "ptr_cell" -> [m EXCEPT !.st[p.w].v = v]
    [] p.k = "ptr_heap" -> [m EXCEPT !.heap[p.w].v = v]
    [] OTHER -> m

Mutate(i, T, v) ==
  /\ ~crashed /\ alive[i]
  /\ FnTarget(Machine, i, T).k # "null"
  /\ v \in TypeVals(T)
  /\ Finish(Store(Machine, FnTarget(Machine, i, T), v), alive, "mutate")

Next ==
  \/ \E i \in Slots : DefaultConstruct(i)
  \/ \E i \in Slots, T \in Types : \E v \in TypeVals(T) : Construct(i, T, v)
  \/ \E i, j \in Slots : CopyConstruct(i, j)
  \/ \E i, j \in Slots : MoveConstruct(i, j)
  \/ \E i, j \in Slots : CopyAssign(i, j)
  \/ \E i, j \in Slots : MoveAssign(i, j)
  \/ \E i, j \in Slots : Swap(i, j)
  \/ \E i \in Slots : Destroy(i)
  \/ \E i \in Slots, T \in Types, v \in Vals : Mutate(i, T, v)

Spec == Init /\ [][Next]_vars

\* The operations whose code branches on fits_small<T>() (construction, and
\* through the table copy, move, destroy and get), on wrappers bound to
\* callables of every type of AllTypes.
NextAnyType ==
  \/ \E i \in Slots, T \in AllTypes : \E v \in TypeVals(T) : Construct(i, T, v)
  \/ \E i, j \in Slots : CopyConstruct(i, j)
  \/ \E i, j \in Slots : MoveConstruct(i, j)
  \/ \E i \in Slots : Destroy(i)
  \/ \E i \in Slots, T \in AllTypes, v \in Vals : Mutate(i, T, v)

SpecAnyType == Init /\ [][NextAnyType]_vars

(* ---------------- what the claims speak of ---------------- *)
(* An operation's effect is the machine its operator returns, which the    *)
(* action commits; a claim about an operation is stated of that machine,   *)
(* for every reachable state in which the operation can be called.         *)
LiveAddrs == {a \in Addrs : heap[a].st = "live"}
BoxedSlots == {i \in Slots : alive[i] /\ Boxed(desc[i])}
SmallHeld(i) == alive[i] /\ desc[i] # Empty /\ fits_small(desc[i])
Bound(i) == alive[i] /\ desc[i] # Empty

ViewOf(i) == View(Machine, i)
InvokeOf(i, arg) == FnInvoke(Machine, i, arg)
BoolOf(i) == FnBool(Machine, i)
TargetOf(i, T) == FnTarget(Machine, i, T)

\* the operation that produced m left the heap as it was
HeapUntouched(m) == m.heap = heap /\ m.allocs = 0 /\ m.deallocs = 0

\* the type of the payload wrapper i holds, "none" when it holds none
PayloadType(i) ==
  IF ~Has(storage[i]) THEN "none"
  ELSE IF storage[i].k = "obj" THEN storage[i].t
  ELSE heap[storage[i].a].t

\* C1: the live heap allocations and the live wrappers holding a boxed
\* payload correspond one to one: every such wrapper's cell points to a live
\* allocation of its type, no two wrappers point to the same allocation,
\* every live allocation is pointed to by such a wrapper, nothing was ever
\* freed that was not live (no double free), allocations made minus
\* deallocations made is the number of live allocations, and with every
\* wrapper destroyed that number is 0.
C1_OneAllocationPerBoxedWrapper ==
  /\ \A i \in BoxedSlots : IsLivePtr(Machine, storage[i], desc[i])
  /\ \A i, j \in BoxedSlots : i # j => storage[i].a # storage[j].a
  /\ \A a \in LiveAddrs : \E i \in BoxedSlots : storage[i].k = "ptr" /\ storage[i].a = a
  /\ "bad_free" \notin faults
  /\ balance = Cardinality(LiveAddrs)
  /\ (\A i \in Slots : ~alive[i]) => balance = 0 /\ LiveAddrs = {}

\* two wrappers hold boxed payloads of one type in two allocations, after a copy
C1_Witness ==
  /\ last = "copy_ctor"
  /\ \E i, j \in BoxedSlots :
       /\ i # j /\ desc[i] = desc[j]
       /\ storage[i].a # storage[j].a
       /\ balance = 2

\* after a move from j to i: j is empty and i returns what j returned
MovedFrom(m, i, j) ==
  /\ ~FnBool(m, j)
  /\ FnBool(m, i)
  /\ \A arg \in Args : FnInvoke(m, j, arg).k = "bad_call"
  /\ \A arg \in Args : FnInvoke(m, i, arg) = InvokeOf(j, arg)

\* C2: move-construction from a bound wrapper, and move-assignment from a
\* bound wrapper into a different wrapper, leave the source empty: bool(source)
\* is false and invoking it raises bad-call for every argument, and the
\* destination returns what the source returned before.
C2_MoveLeavesSourceEmpty ==
  \A i, j \in Slots : Bound(j) =>
    /\ ~alive[i] => MovedFrom(FnMoveCtor(Machine, i, j), i, j)
    /\ (alive[i] /\ i # j) => MovedFrom(FnMoveAssign(Machine, i, j), i, j)

\* a move construction has left an empty source, whose cell holds what the
\* move left, next to a bound destination
C2_Witness ==
  /\ last = "move_ctor"
  /\ \E i, j \in Slots :
       /\ i # j /\ alive[i] /\ alive[j]
       /\ Bound(i) /\ ~BoolOf(j)
       /\ storage[j].k = "stale"
       /\ InvokeOf(j, 0).k = "bad_call" /\ InvokeOf(i, 0).k = "ret"

\* after a copy of j into i: both return what j returned, j is as it was, a
\* boxed copy is a new allocation
Copied(m, i, j) ==
  /\ \A arg \in Args : FnInvoke(m, i, arg) = InvokeOf(j, arg)
  /\ \A arg \in Args : FnInvoke(m, j, arg) = InvokeOf(j, arg)
  /\ m.desc[j] = desc[j] /\ m.st[j] = storage[j]
  /\ View(m, j) = ViewOf(j)
  /\ Boxed(desc[j]) =>
       /\ m.st[i].a # m.st[j].a
       /\ heap[m.st[i].a].st = "free"
       /\ IsLivePtr(m, m.st[i], m.desc[i])
       /\ m.allocs = 1

\* after the state of i's payload is set to v: i returns by v, the others
\* return what they returned
Mutated(m, i, T, v) ==
  \A arg \in Args :
    /\ FnInvoke(m, i, arg).v = Call(T, v, arg)
    /\ \A k \in Slots \ {i} : alive[k] => FnInvoke(m, k, arg) = InvokeOf(k, arg)

\* C3: copy-construction from a bound wrapper gives a wrapper that returns
\* what the source returns, leaves the source as it was, and for a boxed
\* payload points the copy to an allocation that was free before; and changing
\* the state of the payload of one wrapper changes what that wrapper returns
\* and what no other wrapper returns.
C3_CopyIsIndependent ==
  /\ \A i, j \in Slots : (~alive[i] /\ Bound(j)) =>
       \A a \in NewAddr : Copied(FnCopyCtor(Machine, i, j, a), i, j)
  /\ \A i \in Slots, T \in Types : (alive[i] /\ TargetOf(i, T).k # "null") =>
       \A v \in TypeVals(T) : Mutated(Store(Machine, TargetOf(i, T), v), i, T, v)

\* a copy of a wrapper holding a boxed payload has just been made
C3_Witness ==
  /\ last = "copy_ctor"
  /\ \E i, j \in BoxedSlots :
       /\ i # j
       /\ ViewOf(i).d = ViewOf(j).d /\ ViewOf(i).v = ViewOf(j).v
       /\ ViewOf(i).a # ViewOf(j).a

\* after a swap of i and j
Swapped(m, i, j) ==
  /\ View(m, i) = ViewOf(j)
  /\ View(m, j) = ViewOf(i)
  /\ \A arg \in Args : FnInvoke(m, i, arg) = InvokeOf(j, arg)
  /\ \A arg \in Args : FnInvoke(m, j, arg) = InvokeOf(i, arg)
  /\ FnBool(m, i) = BoolOf(j) /\ FnBool(m, j) = BoolOf(i)
  /\ HeapUntouched(m) /\ m.faults = faults

\* C4: swap of two different wrappers, whatever each holds, makes each hold
\* what the other held (type, state and, when boxed, the same allocation) and
\* return what the other returned, so an empty side becomes bound and the
\* bound side empty; the heap is left as it was.
C4_SwapExchanges ==
  \A i, j \in Slots : (alive[i] /\ alive[j] /\ i # j) =>
    Swapped(FnSwap(Machine, i, j), i, j)

\* a swap has just run on an inline payload and a boxed payload
C4_Witness ==
  /\ last = "swap"
  /\ \E i, j \in Slots :
       /\ SmallHeld(i) /\ IsObj(storage[i], desc[i])
       /\ j \in BoxedSlots /\ IsLivePtr(Machine, storage[j], desc[j])

\* C5: w = w, by copy and by move, changes nothing: w holds the same payload
\* and table pointer, nothing is allocated, deallocated or destroyed.
C5_SelfAssignKeeps ==
  \A i \in Slots : alive[i] =>
    /\ \A a \in NewAddr : FnCopyAssign(Machine, i, i, a) = Machine
    /\ FnMoveAssign(Machine, i, i) = Machine

\* a wrapper holding a boxed payload has just been move-assigned to itself
C5_Witness ==
  /\ last = "move_assign_self"
  /\ \E i \in BoxedSlots : IsLivePtr(Machine, storage[i], desc[i])

\* C6: invoking a wrapper that holds no payload, a default-constructed one
\* included, raises bad-call for every argument and calls no callable.
C6_EmptyInvokeIsBadCall ==
  \A i \in Slots :
    (alive[i] /\ ~Has(storage[i]))
    => \A arg \in Args :
         /\ InvokeOf(i, arg).k = "bad_call"
         /\ InvokeOf(i, arg).t = Empty

\* a wrapper has just been default-constructed: its cell was never written
C6_Witness ==
  /\ last = "default"
  /\ \E i \in Slots :
       /\ alive[i] /\ storage[i].k = "uninit"
       /\ \A arg \in Args : InvokeOf(i, arg).k = "bad_call"

\* C7: target<T>() on a wrapper holding a payload of type T returns the
\* address of the payload: the wrapper's own cell when T is stored inline,
\* the live heap object when T is boxed; target<U>() for every other U, and
\* target of any type on a wrapper that holds nothing, returns null.
C7_TargetIsExact ==
  \A i \in Slots : alive[i] =>
    \A T \in Types :
      IF PayloadType(i) = T
      THEN /\ TargetOf(i, T).k # "null"
           /\ TargetOf(i, T).t = T
           /\ fits_small(T) =>
                TargetOf(i, T).k = "ptr_cell" /\ TargetOf(i, T).w = i
           /\ ~fits_small(T) =>
                /\ TargetOf(i, T).k = "ptr_heap"
                /\ heap[TargetOf(i, T).w] = HeapObj(T, ViewOf(i).v)
      ELSE TargetOf(i, T).k = "null"

\* one wrapper holds a boxed payload and answers target of its type, another
\* was moved from and answers null
C7_Witness ==
  \E i, j \in Slots :
    /\ i \in BoxedSlots /\ TargetOf(i, desc[i]).k = "ptr_heap"
    /\ \E U \in Types \ {desc[i]} : TargetOf(i, U).k = "null"
    /\ alive[j] /\ storage[j].k = "stale"
    /\ \A T \in Types : TargetOf(j, T).k = "null"

\* C8: constructing a wrapper from a callable of a type that fits small
\* leaves the heap as it was; so do copying, moving and destroying a wrapper
\* that holds an inline payload, swapping it with any wrapper, move-assigning
\* it, and assigning when no boxed payload is involved.
C8_SmallNeverTouchesHeap ==
  /\ \A i \in Slots, T \in Types : (~alive[i] /\ fits_small(T)) =>
       \A v \in TypeVals(T), a \in NewAddr :
         HeapUntouched(FnFromCallable(Machine, i, T, v, a))
  /\ \A i, j \in Slots : (~alive[i] /\ SmallHeld(j)) =>
       /\ \A a \in NewAddr : HeapUntouched(FnCopyCtor(Machine, i, j, a))
       /\ HeapUntouched(FnMoveCtor(Machine, i, j))
  /\ \A i, j \in Slots : (alive[i] /\ SmallHeld(j)) =>
       /\ HeapUntouched(FnSwap(Machine, i, j))
       /\ HeapUntouched(FnSwap(Machine, j, i))
       /\ HeapUntouched(FnMoveAssign(Machine, j, i))
       /\ ~Boxed(desc[i]) =>
            /\ HeapUntouched(FnMoveAssign(Machine, i, j))
            /\ \A a \in NewAddr :
                 /\ HeapUntouched(FnCopyAssign(Machine, i, j, a))
                 /\ HeapUntouched(FnCopyAssign(Machine, j, i, a))
  /\ \A i \in Slots : SmallHeld(i) => HeapUntouched(FnDtor(Machine, i))

\* a wrapper has just been constructed from a small callable and the heap
\* holds nothing
C8_Witness ==
  /\ last = "construct"
  /\ \E i \in Slots : SmallHeld(i) /\ storage[i].k = "obj"
  /\ LiveAddrs = {} /\ balance = 0

\* C9: after every operation each wrapper's table pointer describes its
\* cell: the pointer is the empty table iff the cell holds no payload;
\* otherwise it is the table of the type of the payload the cell holds, and
\* the cell holds it inline iff that type fits small and as a pointer to a
\* live heap object of that type otherwise.
C9_DescDescribesCell ==
  \A i \in Slots : alive[i] =>
    /\ desc[i] = Empty <=> ~Has(storage[i])
    /\ desc[i] # Empty =>
         /\ PayloadType(i) = desc[i]
         /\ fits_small(desc[i]) => IsObj(storage[i], desc[i])
         /\ ~fits_small(desc[i]) => IsLivePtr(Machine, storage[i], desc[i])

\* a swap has made a bound wrapper empty and an empty wrapper bound to an
\* inline payload: the cell of the empty one holds what the move left
C9_Witness ==
  /\ last = "swap"
  /\ \E i, j \in Slots :
       /\ alive[i] /\ desc[i] = Empty /\ storage[i].k = "stale"
       /\ SmallHeld(j) /\ IsObj(storage[j], desc[j])

\* after i = std::move(j)
MoveAssigned(m, i, j) ==
  /\ View(m, i) = ViewOf(j)
  /\ \A arg \in Args : FnInvoke(m, i, arg) = InvokeOf(j, arg)
  /\ m.desc[j] = Empty /\ ~Has(m.st[j])
  /\ m.allocs = 0
  /\ m.dtors = (IF Bound(i) THEN 1 ELSE 0)
  /\ m.deallocs = (IF Boxed(desc[i]) THEN 1 ELSE 0)
  /\ "destroy_nonlive" \notin m.ev
  /\ Boxed(desc[i]) => m.heap[storage[i].a].st = "free"
  /\ Boxed(desc[j]) => m.heap[storage[j].a] = heap[storage[j].a]
  /\ m.faults = faults

CopyAssigned(m, i, j) ==
  /\ View(m, i).d = ViewOf(j).d /\ View(m, i).v = ViewOf(j).v
  /\ \A arg \in Args : FnInvoke(m, i, arg) = InvokeOf(j, arg)
  /\ m.desc[j] = desc[j] /\ m.st[j] = storage[j] /\ View(m, j) = ViewOf(j)
  /\ Boxed(desc[j]) =>
       /\ heap[m.st[i].a].st = "free"
       /\ IsLivePtr(m, m.st[i], desc[j])
       /\ m.st[i].a # m.st[j].a
  /\ desc[j] = Empty => m.desc[i] = Empty /\ ~Has(m.st[i])
  /\ m.allocs = (IF Boxed(desc[j]) THEN 1 ELSE 0)
  /\ m.dtors = (IF Bound(i) THEN 1 ELSE 0)
  /\ m.deallocs = (IF Boxed(desc[i]) THEN 1 ELSE 0)
  /\ "destroy_nonlive" \notin m.ev
  /\ Boxed(desc[i]) => m.heap[storage[i].a].st = "free"
  /\ m.faults = faults

BoolTellsPayload(m, i) == FnBool(m, i) = Has(m.st[i])

\* C12: bool(w) is true iff w's table pointer is not the empty table, iff w
\* holds a payload. It is false after default construction, at the source of
\* a move construction and of a move assignment, and after copying or
\* assigning from an empty wrapper; true after construction from a callable
\* and after copying, moving or assigning from a bound wrapper.
C12_BoolIffBound ==
  /\ \A i \in Slots : alive[i] =>
       /\ BoolOf(i) = (desc[i] # EmptyDesc)
       /\ BoolTellsPayload(Machine, i)
  /\ \A i \in Slots : ~alive[i] =>
       /\ ~FnBool(FnDefault(Machine, i), i)
       /\ \A T \in Types : \A v \in TypeVals(T), a \in NewAddr :
            LET m == FnFromCallable(Machine, i, T, v, a)
            IN  FnBool(m, i) /\ BoolTellsPayload(m, i)
       /\ \A j \in Slots : alive[j] =>
            /\ \A a \in NewAddr :
                 LET m == FnCopyCtor(Machine, i, j, a)
                 IN  /\ FnBool(m, i) = BoolOf(j)
                     /\ FnBool(m, j) = BoolOf(j)
                     /\ BoolTellsPayload(m, i)
            /\ LET m == FnMoveCtor(Machine, i, j)
               IN  /\ FnBool(m, i) = BoolOf(j)
                   /\ ~FnBool(m, j)
                   /\ BoolTellsPayload(m, i) /\ BoolTellsPayload(m, j)
  /\ \A i, j \in Slots : (alive[i] /\ alive[j] /\ i # j) =>
       /\ \A a \in NewAddr :
            LET m == FnCopyAssign(Machine, i, j, a)
            IN  /\ FnBool(m, i) = BoolOf(j)
                /\ FnBool(m, j) = BoolOf(j)
                /\ BoolTellsPayload(m, i)
       /\ LET m == FnMoveAssign(Machine, i, j)
          IN  /\ FnBool(m, i) = BoolOf(j)
              /\ ~FnBool(m, j)
              /\ BoolTellsPayload(m, i) /\ BoolTellsPayload(m, j)

\* a copy assignment from an empty wrapper has just emptied a wrapper that
\* held a payload: both are false
C12_Witness ==
  /\ last = "copy_assign"
  /\ \E i, j \in Slots :
       /\ i # j /\ alive[i] /\ alive[j]
       /\ storage[i].k = "stale" /\ storage[j].k = "uninit"
       /\ ~BoolOf(i) /\ ~BoolOf(j)

\* the moves of the operation that produced m assigned into no cell that held
\* no live object, and ran no destructor on anything but a live object in
\* the source cell
RelocatedInPlace(m) ==
  /\ "assign_nonlive" \notin m.ev
  /\ "wild_destroy" \notin m.ev
  /\ "destroy_nonlive" \notin m.ev
  /\ "read_moved_from" \notin m.ev

\* C13: relocating an inline payload, in move construction, move assignment
\* and swap, constructs the payload in the destination cell and destroys the
\* object in the source cell: nothing is assigned into a cell that holds no
\* live object, and no destructor runs on a non-live object or on an address
\* other than the source cell.
C13_InlineRelocationConstructsAndDestroys ==
  /\ \A i, j \in Slots : (~alive[i] /\ SmallHeld(j)) =>
       RelocatedInPlace(FnMoveCtor(Machine, i, j))
  /\ \A i, j \in Slots :
       (alive[i] /\ alive[j] /\ i # j /\ (SmallHeld(i) \/ SmallHeld(j))) =>
         /\ RelocatedInPlace(FnSwap(Machine, i, j))
         /\ RelocatedInPlace(FnMoveAssign(Machine, i, j))

\* the number of cells among i's, j's and the scratch cell that hold a payload
PayloadCells(m, i, j) == Cardinality({c \in {i, j, Scratch} : Has(m.st[c])})
\* the number of payloads wrappers i and j hold
Payloads(i, j) == (IF Bound(i) THEN 1 ELSE 0) + (IF Bound(j) THEN 1 ELSE 0)

\* the states swap (this = i, other = j) goes through
SwapTrace(m1, m2, m3, m4, i, j) ==
  \* after the first move: other's payload is in the scratch cell
  /\ m1.st[Scratch] = (IF Bound(j) THEN storage[j] ELSE Uninit)
  /\ m1.st[j] = (IF Bound(j) THEN Stale ELSE storage[j])
  /\ m1.st[i] = storage[i]
  /\ PayloadCells(m1, i, j) = Payloads(i, j)
  \* after the second: this' payload is in other's cell
  /\ m2.st[j] = (IF Bound(i) THEN storage[i] ELSE m1.st[j])
  /\ m2.st[i] = (IF Bound(i) THEN Stale ELSE storage[i])
  /\ m2.st[Scratch] = m1.st[Scratch]
  /\ PayloadCells(m2, i, j) = Payloads(i, j)
  \* after the third: other's payload is in this' cell, the scratch cell
  \* holds none
  /\ m3.st[i] = (IF Bound(j) THEN storage[j] ELSE m2.st[i])
  /\ m3.st[j] = m2.st[j]
  /\ ~Has(m3.st[Scratch])
  /\ PayloadCells(m3, i, j) = Payloads(i, j)
  \* the table pointers are exchanged last
  /\ m1.desc = Machine.desc /\ m2.desc = Machine.desc /\ m3.desc = Machine.desc
  /\ m4.desc[i] = desc[j] /\ m4.desc[j] = desc[i]
  /\ m4.st = m3.st

\* C14: swap of two different wrappers moves other's payload into the
\* scratch cell through other's table, this' payload into other's cell
\* through this' table, the scratch cell into this' cell through other's
\* table, and then exchanges the table pointers; after each move each payload
\* is in exactly one of the three cells, and at the end the scratch cell
\* holds none.
C14_SwapIsThreeMovesThenDescs ==
  \A i, j \in Slots : (alive[i] /\ alive[j] /\ i # j) =>
    LET m1 == SwapStep1(Machine, i, j)
        m2 == SwapStep2(m1, i, j)
        m3 == SwapStep3(m2, i, j)
        m4 == FnSwap(Machine, i, j)
    IN  /\ SwapTrace(m1, m2, m3, m4, i, j)
        /\ m4 = SwapDescs(m3, i, j)

\* a swap has just run on two boxed payloads, and run again its first move
\* would put other's pointer in the scratch cell
C14_Witness ==
  /\ last = "swap"
  /\ \E i, j \in BoxedSlots :
       /\ i # j
       /\ SwapStep1(Machine, i, j).st[Scratch] = storage[j]
       /\ SwapStep1(Machine, i, j).st[j] = Stale

\* C15: swap allocates nothing and deallocates nothing, whatever the two
\* operands hold (empty, inline or boxed, the same wrapper twice included),
\* after each of its moves and at its end: a boxed payload changes owner by
\* its pointer being stored in the other cell.
C15_SwapNeverAllocates ==
  \A i, j \in Slots : (alive[i] /\ alive[j]) =>
    LET m1 == SwapStep1(Machine, i, j)
        m2 == SwapStep2(m1, i, j)
        m == FnSwap(Machine, i, j)
    IN  /\ HeapUntouched(m1) /\ HeapUntouched(m2) /\ HeapUntouched(m)
        /\ Boxed(desc[j]) => m.st[i] = storage[j]
        /\ Boxed(desc[i]) => m.st[j] = storage[i]

\* a swap has just run on a boxed payload and an empty wrapper: the one
\* allocation has a new owner
C15_Witness ==
  /\ last = "swap"
  /\ \E i, j \in Slots :
       /\ i \in BoxedSlots /\ alive[j] /\ desc[j] = Empty /\ storage[j].k = "stale"
       /\ LiveAddrs = {storage[i].a} /\ balance = 1

\* bytes that would read as a callable in place, and as a pointer
Garbage == {ObjCell("S4", 1), PtrCell(1)}
\* machine m with cell c holding g
WithCell(m, c, g) == [m EXCEPT !.st[c] = g]
\* what an operation leaves behind, cell c aside
Outcome(m, c) ==
  [desc |-> m.desc, st |-> [k \in Cells |-> IF k = c THEN Uninit ELSE m.st[k]],
   heap |-> m.heap,
   allocs |-> m.allocs, deallocs |-> m.deallocs, dtors |-> m.dtors,
   faults |-> m.faults]
\* mg and m are the results of one operation run with cell c holding g and
\* holding what it holds: the operation did not read the cell
NotRead(mg, m, c, g) ==
  /\ Outcome(mg, c) = Outcome(m, c)
  /\ mg.st[c] \in {g, m.st[c]}
\* swap from machine m, its scratch cell holding g at the start
SwapFromScratch(m, i, j, g) ==
  SwapDescs(SwapStep3(SwapStep2(
    DescMove(WithCell(m, Scratch, g), m.desc[j], j, Scratch), i, j), i, j), i, j)

ReleasedOnce(m, i) ==
  /\ m.dtors = 1
  /\ m.deallocs = (IF Boxed(desc[i]) THEN 1 ELSE 0)
  /\ m.allocs = 0
  /\ Boxed(desc[i]) => m.heap[storage[i].a].st = "free"
  /\ "destroy_nonlive" \notin m.ev
  /\ m.faults = faults

\* C17: ~function() runs the destroy of the wrapper's current table on its
\* cell. On an empty wrapper (default-constructed, moved-from, emptied by
\* assignment or swap) it changes nothing: no deallocation, no payload
\* destroyed. On a bound wrapper it releases the payload once. Destroying the
\* source of a move and its destination, in either order, releases the
\* payload exactly once.
C17_DestroyOfEmptyReleasesNothing ==
  /\ \A i \in Slots : alive[i] =>
       /\ FnDtor(Machine, i) = DescDestroy(Machine, desc[i], i)
       /\ desc[i] = Empty => FnDtor(Machine, i) = Machine
       /\ desc[i] # Empty => ReleasedOnce(FnDtor(Machine, i), i)
  /\ \A i, j \in Slots : (~alive[i] /\ Bound(j)) =>
       /\ FnDtor(FnMoveCtor(Machine, i, j), j) = FnMoveCtor(Machine, i, j)
       /\ ReleasedOnce(FnDtor(FnDtor(FnMoveCtor(Machine, i, j), j), i), j)
       /\ ReleasedOnce(FnDtor(FnDtor(FnMoveCtor(Machine, i, j), i), j), j)

\* the moved-from source of a boxed payload has just been destroyed: its
\* destination still owns the one live allocation
C17_Witness ==
  /\ last = "destroy"
  /\ \E i \in BoxedSlots :
       /\ IsLivePtr(Machine, storage[i], desc[i])
       /\ \A j \in Slots \ {i} : ~alive[j]
       /\ LiveAddrs = {storage[i].a} /\ balance = 1

\* the four conditions of the claim
StoredInline(T) ==
  /\ TypeInfo(T).size < WordSize
  /\ TypeInfo(T).align < WordAlign
  /\ TypeInfo(T).nmc
  /\ TypeInfo(T).nma
\* the cell of wrapper i in machine m holds a T the way the claim says
HeldByRule(m, i, T) ==
  IF StoredInline(T) THEN IsObj(m.st[i], T) ELSE IsLivePtr(m, m.st[i], T)

\* C18: a callable type is stored inline iff its size is less than a word,
\* its alignment less than a word's, and it is nothrow move-constructible and
\* nothrow move-assignable; a type one word in size or alignment, or failing
\* either nothrow condition, is boxed; and construction, copy, move, destroy,
\* get and invoke of a type all go by that one decision.
C18_InlineIffFitsSmall ==
  /\ \A T \in AllTypes :
       /\ fits_small(T) <=> StoredInline(T)
       /\ (TypeInfo(T).size = WordSize \/ TypeInfo(T).align = WordAlign) => ~fits_small(T)
  /\ \A i \in Slots, T \in AllTypes : ~alive[i] =>
       \A v \in TypeVals(T), a \in NewAddr :
         /\ HeldByRule(FnFromCallable(Machine, i, T, v, a), i, T)
         /\ FnFromCallable(Machine, i, T, v, a).allocs = (IF StoredInline(T) THEN 0 ELSE 1)
  /\ \A i \in Slots : Bound(i) =>
       /\ HeldByRule(Machine, i, desc[i])
       /\ TargetOf(i, desc[i]).k = (IF StoredInline(desc[i]) THEN "ptr_cell" ELSE "ptr_heap")
       /\ TargetOf(i, desc[i]).w = (IF StoredInline(desc[i]) THEN i ELSE storage[i].a)
       /\ \A arg \in Args :
            InvokeOf(i, arg).v =
              Call(desc[i], IF StoredInline(desc[i]) THEN storage[i].v
                            ELSE heap[storage[i].a].v, arg)
       /\ FnDtor(Machine, i).deallocs = (IF StoredInline(desc[i]) THEN 0 ELSE 1)
       /\ "bad_free" \notin FnDtor(Machine, i).faults
       /\ \A k \in Slots : ~alive[k] =>
            /\ \A a \in NewAddr :
                 /\ HeldByRule(FnCopyCtor(Machine, k, i, a), k, desc[i])
                 /\ FnCopyCtor(Machine, k, i, a).allocs =
                      (IF StoredInline(desc[i]) THEN 0 ELSE 1)
            /\ HeldByRule(FnMoveCtor(Machine, k, i), k, desc[i])
            /\ FnMoveCtor(Machine, k, i).allocs = 0

\* a wrapper holds, boxed, a callable one word in size with a smaller
\* alignment, next to one holding a four-byte callable inline
C18_Witness ==
  \E i, j \in Slots :
    /\ alive[i] /\ desc[i] = "B8a4" /\ IsLivePtr(Machine, storage[i], "B8a4")
    /\ alive[j] /\ desc[j] = "S4" /\ IsObj(storage[j], "S4")

\* after i.swap(i): i holds what it held, nothing was released, allocated or
\* deallocated, and no move read or destroyed an object that had been moved
\* out of its cell and destroyed
SelfSwapped(m, i) ==
  /\ m.desc[i] = desc[i] /\ m.st[i] = storage[i]
  /\ View(m, i) = ViewOf(i)
  /\ HeapUntouched(m) /\ m.dtors = 0 /\ m.faults = faults
  /\ "read_moved_from" \notin m.ev
  /\ "wild_destroy" \notin m.ev
  /\ "destroy_nonlive" \notin m.ev

\* C19: w.swap(w) leaves w as it was whatever it holds (nothing, an inline
\* payload, a boxed payload): the same live payload and table pointer,
\* nothing allocated or deallocated, no payload destroyed, none used after
\* it was destroyed.
C19_SelfSwapKeeps ==
  \A i \in Slots : alive[i] => SelfSwapped(FnSwap(Machine, i, i), i)

\* after i = j by copy threw: both wrappers are as they were, nothing of i's
\* was released, every allocation made was given back
KeptOnThrow(m, i, j) ==
  /\ "throw" \in m.ev
  /\ m.desc[i] = desc[i] /\ m.st[i] = storage[i]
  /\ m.desc[j] = desc[j] /\ m.st[j] = storage[j]
  /\ View(m, i) = ViewOf(i) /\ View(m, j) = ViewOf(j)
  /\ \A arg \in Args : FnInvoke(m, i, arg) = InvokeOf(i, arg)
  /\ m.heap = heap /\ m.allocs = m.deallocs
  /\ m.dtors = 0
  /\ "destroy" \notin m.ev /\ "destroy_nonlive" \notin m.ev
  /\ m.faults = faults

\* C20: when copying b's payload throws during a = b (operator new or the
\* callable's copy constructor, while the temporary is built), a and b are
\* left as they were: a holds and returns what it did, nothing of a's was
\* destroyed, and no allocation is left without an owner.
C20_CopyAssignThrowKeepsBoth ==
  /\ \A i, j \in Slots : (alive[i] /\ Bound(j) /\ i # j) =>
       \A a \in NewAddr, how \in ThrowKinds(desc[j]) :
         KeptOnThrow(FnCopyAssignThrows(Machine, i, j, a, how), i, j)
  /\ last = "copy_assign_throw" => balance = Cardinality(LiveAddrs)

\* a copy assignment between two wrappers holding different boxed payloads
\* has just thrown: each still owns its allocation
C20_Witness ==
  /\ last = "copy_assign_throw"
  /\ \E i, j \in BoxedSlots :
       /\ i # j /\ ViewOf(i).v # ViewOf(j).v
       /\ IsLivePtr(Machine, storage[i], desc[i])
       /\ IsLivePtr(Machine, storage[j], desc[j])
       /\ balance = 2
====
